---- MODULE Spec2Model ----
(***************************************************************************)
(* A model of logic/transaction.js: the transaction core of the node.      *)
(*                                                                         *)
(* Spec        one operation at a time of apply, undo, applyUnconfirmed,   *)
(*             undoUnconfirmed and process against the account store, with *)
(*             the store, the type handler and the ledger as external      *)
(*             collaborators whose outcome is a nondeterministic choice.   *)
(* SpecVerify  the verification pipeline of verify, its arguments drawn    *)
(*             from bounded sets.                                          *)
(*                                                                         *)
(* setImmediate(cb, e) and a direct cb(e) both invoke the completion       *)
(* callback once; the deferral changes no state of the program, so it is   *)
(* part of the step that schedules it.                                     *)
(***************************************************************************)
EXTENDS Integers, Sequences, FiniteSets, TLC

VARIABLES store, op, vin, vst, ops, cx

vars == <<store, op, vin, vst, ops, cx>>

---------------------------------------------------------------------------
(* Bounds of the model *)

MaxAmount == 2
MaxFee == 1
MaxBalance == 3
BlockHeight == 102

(* the stand-in for constants.totalAmount, the total supply *)
totalAmount == 2

(* the current time and the length of a slot, in seconds since the epoch *)
CurrentTime == 1
SlotInterval == 2

(* slots.delegates, the number of delegates of a round *)
delegates == 101

---------------------------------------------------------------------------
(* Values *)

None == "None"

(* the value a completion callback receives on success (no error) *)
NoError == "null"

K1 == "K1"
K2 == "K2"
K3 == "K3"
K4 == "K4"
K5 == "K5"

SenderAddress == "1L"

(* __private.types: the registered handlers; type 1 is not registered *)
types == {0}
TrsTypes == {0, 1}

(* genesisblock.block *)
genesisblock == [id |-> "G", height |-> 1]

Blocks == {genesisblock, [id |-> "B1", height |-> BlockHeight]}

(* a JS array that may be null/undefined *)
NullArr == [isNull |-> TRUE, items |-> <<>>]
Arr(s) == [isNull |-> FALSE, items |-> s]

(* a signature: who made it and over which digest; NoSig is an absent one *)
NoSig == [by |-> None, msg |-> <<>>]

NoAccount ==
  [exists |-> FALSE, address |-> None, publicKey |-> None, balance |-> 0,
   u_balance |-> 0, secondSignature |-> FALSE, secondPublicKey |-> None,
   multisignatures |-> NullArr, u_multisignatures |-> NullArr]

(* the requester argument: an account, undefined, or (when the caller    *)
(* passes three arguments) the completion callback itself                *)
NoRequester == [kind |-> "undefined", secondSignature |-> FALSE, secondPublicKey |-> None]
CallbackAsRequester == [kind |-> "function", secondSignature |-> FALSE, secondPublicKey |-> None]
RequesterAccount(second) ==
  [kind |-> "account", secondSignature |-> second, secondPublicKey |-> K4]

Requesters ==
  {NoRequester, CallbackAsRequester} \cup {RequesterAccount(s) : s \in BOOLEAN}

(* an absent transaction id *)
NoId == <<>>

(* a transaction record with every field the core reads; keysgroup is  *)
(* asset.multisignature.keysgroup                                      *)
DefaultTrs ==
  [type |-> 0, id |-> NoId, timestamp |-> 0, senderPublicKey |-> K1,
   senderId |-> SenderAddress, requesterPublicKey |-> None, recipientId |-> None,
   amount |-> 0, fee |-> 0, signature |-> NoSig, signSignature |-> NoSig,
   signatures |-> NullArr, keysgroup |-> NullArr, blockId |-> None]

---------------------------------------------------------------------------
(* Pure helpers *)

Present(sig) == sig # NoSig

(* bb.writeInt(value) on a ByteBuffer constructed with littleEndian = true: *)
(* the four bytes of a signed 32-bit integer in two's complement, in the  *)
(* order the buffer stores them                                           *)
writeIntBigEndian(value) == [i \in 1..4 |-> (value \div 256^(4 - i)) % 256]
writeInt(value) == [i \in 1..4 |-> (value \div 256^(i - 1)) % 256]

(* Transaction.prototype.getBytes, for a registered type: the canonical *)
(* sequence of fields; the asset bytes are the handler's                *)
getBytes(trs, skipSignature, skipSecondSignature) ==
  <<trs.type, writeInt(trs.timestamp), trs.senderPublicKey, trs.requesterPublicKey,
    trs.recipientId, trs.amount, trs.keysgroup,
    IF ~skipSignature /\ Present(trs.signature) THEN trs.signature ELSE NoSig,
    IF ~skipSecondSignature /\ Present(trs.signSignature) THEN trs.signSignature ELSE NoSig>>

(* crypto.createHash('sha256'): a digest determines its pre-image *)
sha256(bytes) == <<"sha256", bytes>>

(* Transaction.prototype.getHash *)
getHash(trs) == sha256(getBytes(trs, FALSE, FALSE))

(* Transaction.prototype.getId: a function of the digest alone *)
getId(trs) == <<"id", getHash(trs)>>

(* ed.Sign and ed.Verify: a signature names its key pair and its digest *)
edSign(hash, publicKey) == [by |-> publicKey, msg |-> hash]
edVerify(hash, signature, publicKey) ==
  signature.by = publicKey /\ signature.msg = hash

signDoubleHash(publicKey, trs) == edSign(sha256(getHash(trs)), publicKey)

(* Transaction.prototype.sign and multisign, by the key pair of publicKey *)
sign(publicKey, trs) == edSign(getHash(trs), publicKey)
multisign(publicKey, trs) == edSign(sha256(getBytes(trs, TRUE, TRUE)), publicKey)

(* Transaction.prototype.verifyBytes *)
verifyBytes(bytes, publicKey, signature) == edVerify(sha256(bytes), signature, publicKey)

(* Transaction.prototype.verifySignature and verifySecondSignature: *)
(* "true", "false", or "throw" for an exception                      *)
verifySignature(trs, publicKey, signature) ==
  IF trs.type \notin types THEN "throw"
  ELSE IF ~Present(signature) THEN "false"
  ELSE IF verifyBytes(getBytes(trs, TRUE, TRUE), publicKey, signature) THEN "true"
  ELSE "false"

verifySecondSignatureUnguarded(trs, publicKey, signature) ==
  IF trs.type \notin types THEN "throw"
  ELSE IF ~Present(signature) THEN "throw"
  ELSE IF verifyBytes(getBytes(trs, FALSE, TRUE), publicKey, signature) THEN "true"
  ELSE "false"

verifySecondSignature(trs, publicKey, signature) ==
  IF trs.type \notin types THEN "throw"
  ELSE IF ~Present(signature) THEN "false"
  ELSE IF verifyBytes(getBytes(trs, FALSE, TRUE), publicKey, signature) THEN "true"
  ELSE "false"

(* Array.prototype.indexOf(x) >= 0 *)
Contains(seq, x) == \E i \in 1..Len(seq) : seq[i] = x

calc(height) ==
  (height \div delegates) + (IF height % delegates > 0 THEN 1 ELSE 0)

(* Transaction.prototype.ready; handlerReady is handler.ready's answer *)
ready(trs, sender, handlerReady) ==
  IF ~sender.exists THEN FALSE ELSE handlerReady

(* an additive delta handed to AccountStore.merge *)
Delta(b, u, blockId, round) ==
  [balance |-> b, u_balance |-> u, blockId |-> blockId, round |-> round]

(* the deltas of the four operations: the first merge and its reversal *)
applyDelta(amount, block) == Delta(-amount, 0, block.id, calc(block.height))
applyReverseDeltaTwice(amount, block) == Delta(amount + amount, 0, block.id, calc(block.height))
applyReverseDelta(amount, block) == Delta(amount, 0, block.id, calc(block.height))
undoDelta(amount, block) == Delta(amount, 0, block.id, calc(block.height))
undoReverseDelta(amount, block) == Delta(amount, 0, block.id, calc(block.height))
applyUnconfirmedDelta(amount) == Delta(0, -amount, None, 0)
applyUnconfirmedReverseDelta(amount) == Delta(0, amount, None, 0)
undoUnconfirmedDeltaConfirmed(amount) == Delta(amount, 0, None, 0)
undoUnconfirmedDelta(amount) == Delta(0, amount, None, 0)
undoUnconfirmedReverseDelta(amount) == Delta(0, -amount, None, 0)

(* what the completion callback receives after the reversing merge:     *)
(* err2 is the merge's result, herr the handler's error                 *)
applyReverseResult(err2, herr) == err2
undoReverseResult(err2, herr) == err2
applyUnconfirmedReverseResultHandlerFirst(err2, herr) == herr
applyUnconfirmedReverseResult(err2, herr) == IF err2 # NoError THEN err2 ELSE herr
undoUnconfirmedReverseResult(err2, herr) == IF err2 # NoError THEN err2 ELSE herr

(* AccountStore.merge: an atomic additive update *)
merge(account, delta) ==
  [account EXCEPT !.balance = @ + delta.balance, !.u_balance = @ + delta.u_balance]

---------------------------------------------------------------------------
(* The operation in flight: its arguments, the deltas it has handed to *)
(* the store (merges) and the store's answers (stored), the handler's  *)
(* error (herr) and every invocation of its completion callback (cb)   *)

NoPrev == [set |-> FALSE, pre |-> 0, preU |-> 0]

IdleOp ==
  [kind |-> "none", pc |-> "idle", trs |-> DefaultTrs, block |-> genesisblock,
   sender |-> NoAccount, requester |-> NoRequester, amount |-> 0, herr |-> NoError,
   cb |-> <<>>, merges |-> <<>>, stored |-> <<>>, handlerCalls |-> 0, pre |-> 0, preU |-> 0,
   prev |-> NoPrev, given |-> DefaultTrs]

(* the completion callback is invoked with err *)
Complete(o, err) == [o EXCEPT !.pc = "done", !.cb = Append(@, err)]

(* an exception leaves the operation: nothing is scheduled, cb is not called *)
Raise(o) == [o EXCEPT !.pc = "raised"]

IssueMerge(o, delta, pc) == [o EXCEPT !.pc = pc, !.merges = Append(@, delta)]

CallHandler(o) == [o EXCEPT !.pc = "handler", !.handlerCalls = @ + 1]

AtRest(o) == o.pc \in {"idle", "done", "raised", "lost", "returned"}

(* o ran to successful completion with its handler succeeding *)
Succeeded(o, kind) ==
  /\ o.kind = kind
  /\ o.pc = "done"
  /\ o.cb = <<NoError>>
  /\ o.handlerCalls = 1
  /\ o.herr = NoError

(* the operation undone by kind, if any *)
Inverse(kind) ==
  CASE kind = "undo" -> "apply"
    [] kind = "undoUnconfirmed" -> "applyUnconfirmed"
    [] OTHER -> "none"

(* a new call; prev remembers the balances before the operation this one *)
(* undoes, when that operation has just succeeded on the same arguments  *)
NewOp(kind, trs, block, sender, requester) ==
  [IdleOp EXCEPT
     !.kind = kind, !.pc = "called", !.trs = trs, !.given = trs, !.block = block,
     !.sender = sender, !.requester = requester,
     !.pre = store.balance, !.preU = store.u_balance,
     !.prev = IF /\ Succeeded(op, Inverse(kind))
                 /\ op.trs = trs
                 /\ op.block = block
                 /\ sender.exists
              THEN [set |-> TRUE, pre |-> op.pre, preU |-> op.preU]
              ELSE NoPrev]

(* the account the caller read from the store and passes as sender *)
SenderOf(second) ==
  [NoAccount EXCEPT
     !.exists = TRUE, !.address = SenderAddress, !.publicKey = K1,
     !.balance = store.balance, !.u_balance = store.u_balance,
     !.secondSignature = second, !.secondPublicKey = IF second THEN K4 ELSE None]

(* transactions handed to the state-changing operations *)
MutatorTrs ==
  {[DefaultTrs EXCEPT !.type = t, !.amount = a, !.fee = f, !.blockId = b] :
     t \in TrsTypes, a \in 0..MaxAmount, f \in 0..MaxFee, b \in {"G", "B1"}}

(* a signature whose digest the operations below never look at *)
SomeSig == [by |-> K4, msg |-> <<"sig">>]

(* transactions handed to applyUnconfirmed *)
UnconfirmedTrs ==
  {[t EXCEPT !.requesterPublicKey = r, !.signSignature = s] :
     t \in MutatorTrs, r \in {None, K2}, s \in {NoSig, SomeSig}}

(* a call starts when no operation is in flight (operations on a sender *)
(* are serialized), with any arguments; or right after the operation it *)
(* undoes has succeeded, with that operation's arguments                *)
Fresh == op.pc = "idle"

Follows(kind) == Succeeded(op, Inverse(kind)) /\ op.sender.exists

InRange ==
  /\ store.balance \in 0..MaxBalance
  /\ store.u_balance \in 0..MaxBalance

CanStart(kind) == InRange /\ (Fresh \/ Follows(kind))

(* the arguments a call of kind may be given *)
TrsGiven(all) == IF Fresh THEN all ELSE {op.trs}
BlocksGiven == IF Fresh THEN Blocks ELSE {op.block}

---------------------------------------------------------------------------
(* Transaction.prototype.apply, up to the first merge *)
apply(o, handlerReady) ==
  IF o.trs.type \notin types THEN Complete(o, "Unknown transaction type")
  ELSE IF ~ready(o.trs, o.sender, handlerReady)
  THEN Complete(o, "Transaction is not ready")
  ELSE LET amount == o.trs.amount + o.trs.fee
           exceedsBalance == o.sender.balance < amount
       IN IF o.trs.blockId # genesisblock.id /\ exceedsBalance
          THEN Complete(o, "Account has no LISK")
          ELSE IssueMerge([o EXCEPT !.amount = amount],
                          applyDelta(amount, o.block), "merge1")

undoWithoutFee(o) ==
  IF o.trs.type \notin types THEN Complete(o, "Unknown transaction type")
  ELSE IF ~o.sender.exists THEN Raise(o)
  ELSE LET amount == o.trs.amount
       IN IssueMerge([o EXCEPT !.amount = amount],
                     undoDelta(amount, o.block), "merge1")

(* Transaction.prototype.undo, up to the first merge *)
undo(o) ==
  IF o.trs.type \notin types THEN Complete(o, "Unknown transaction type")
  ELSE IF ~o.sender.exists THEN Raise(o)
  ELSE LET amount == o.trs.amount + o.trs.fee
       IN IssueMerge([o EXCEPT !.amount = amount],
                     undoDelta(amount, o.block), "merge1")

applyUnconfirmedUnchecked(o) ==
  LET trs == o.trs
      sender == o.sender
      requester == o.requester
      hasRequester == trs.requesterPublicKey # None
  IN
  IF trs.type \notin types THEN Complete(o, "Unknown transaction type")
  ELSE IF ~hasRequester /\ ~sender.exists THEN Raise(o)
  ELSE IF hasRequester /\ requester.kind = "undefined" THEN Raise(o)
  ELSE IF hasRequester /\ requester.secondSignature /\ ~Present(trs.signSignature)
  THEN Complete(o, "Missing requester second signature")
  ELSE IF hasRequester /\ ~requester.secondSignature /\ Present(trs.signSignature)
  THEN Complete(o, "Requester does not have a second signature")
  ELSE IF ~sender.exists THEN Raise(o)
  ELSE LET amount == trs.amount + trs.fee
           exceedsBalance == sender.u_balance < amount
       IN IF trs.blockId # genesisblock.id /\ exceedsBalance
          THEN Complete(o, "Account has no LISK")
          ELSE IssueMerge([o EXCEPT !.amount = amount],
                          applyUnconfirmedDelta(amount), "merge1")

(* Transaction.prototype.applyUnconfirmed, up to the first merge *)
applyUnconfirmed(o) ==
  LET trs == o.trs
      sender == o.sender
      requester == o.requester
      hasRequester == trs.requesterPublicKey # None
  IN
  IF trs.type \notin types THEN Complete(o, "Unknown transaction type")
  ELSE IF ~hasRequester /\ ~sender.exists THEN Raise(o)
  ELSE IF /\ ~hasRequester /\ sender.secondSignature /\ ~Present(trs.signSignature)
          /\ trs.blockId # genesisblock.id
  THEN Complete(o, "Missing sender second signature")
  ELSE IF ~hasRequester /\ ~sender.secondSignature /\ Present(trs.signSignature)
  THEN Complete(o, "Sender does not have a second signature")
  ELSE IF hasRequester /\ requester.kind = "undefined" THEN Raise(o)
  ELSE IF hasRequester /\ requester.secondSignature /\ ~Present(trs.signSignature)
  THEN Complete(o, "Missing requester second signature")
  ELSE IF hasRequester /\ ~requester.secondSignature /\ Present(trs.signSignature)
  THEN Complete(o, "Requester does not have a second signature")
  ELSE IF ~sender.exists THEN Raise(o)
  ELSE LET amount == trs.amount + trs.fee
           exceedsBalance == sender.u_balance < amount
       IN IF trs.blockId # genesisblock.id /\ exceedsBalance
          THEN Complete(o, "Account has no LISK")
          ELSE IssueMerge([o EXCEPT !.amount = amount],
                          applyUnconfirmedDelta(amount), "merge1")

(* Transaction.prototype.undoUnconfirmed, up to the first merge *)
undoUnconfirmed(o) ==
  IF o.trs.type \notin types THEN Complete(o, "Unknown transaction type")
  ELSE IF ~o.sender.exists THEN Raise(o)
  ELSE LET amount == o.trs.amount + o.trs.fee
       IN IssueMerge([o EXCEPT !.amount = amount],
                     undoUnconfirmedDelta(amount), "merge1")

processWithoutEqualize(o) ==
  LET trs == o.trs
      sender == o.sender
      txId == getId(trs)
      withId == [o EXCEPT !.trs.id = txId]
      withSender == withId
      signer == IF trs.requesterPublicKey # None THEN trs.requesterPublicKey
                ELSE trs.senderPublicKey
  IN
  IF trs.type \notin types THEN Complete(o, "Unknown transaction type")
  ELSE IF trs.id # NoId /\ trs.id # txId THEN Complete(o, "Invalid transaction id")
  ELSE IF ~sender.exists THEN Complete(withId, "Missing sender")
  ELSE IF trs.requesterPublicKey # None /\ sender.multisignatures.isNull
  THEN Raise(withSender)
  ELSE IF /\ trs.requesterPublicKey # None
          /\ ~Contains(sender.multisignatures.items, trs.requesterPublicKey)
  THEN Complete(withSender, "Invalid requester public key")
  ELSE IF verifySignature(withSender.trs, signer, trs.signature) # "true"
  THEN Complete(withSender, "Failed to verify signature")
  ELSE [withSender EXCEPT !.pc = "handlerProcess", !.handlerCalls = @ + 1]

(* Transaction.prototype.process, up to the handler's process; the id *)
(* and the sender address are written into the record it is given     *)
process(o) ==
  LET trs == o.trs
      sender == o.sender
      txId == getId(trs)
      withId == [o EXCEPT !.trs.id = txId]
      withSender == [withId EXCEPT !.trs.senderId = sender.address]
      signer == IF trs.requesterPublicKey # None THEN trs.requesterPublicKey
                ELSE trs.senderPublicKey
  IN
  IF trs.type \notin types THEN Complete(o, "Unknown transaction type")
  ELSE IF trs.id # NoId /\ trs.id # txId THEN Complete(o, "Invalid transaction id")
  ELSE IF ~sender.exists THEN Complete(withId, "Missing sender")
  ELSE IF trs.requesterPublicKey # None /\ sender.multisignatures.isNull
  THEN Raise(withSender)
  ELSE IF /\ trs.requesterPublicKey # None
          /\ ~Contains(sender.multisignatures.items, trs.requesterPublicKey)
  THEN Complete(withSender, "Invalid requester public key")
  ELSE IF verifySignature(withSender.trs, signer, trs.signature) # "true"
  THEN Complete(withSender, "Failed to verify signature")
  ELSE [withSender EXCEPT !.pc = "handlerProcess", !.handlerCalls = @ + 1]

(* the callback of the handler's process: on success look the id up *)
afterHandlerProcess(o, err) ==
  IF err # NoError THEN Complete(o, err) ELSE [o EXCEPT !.pc = "countById"]

(* the ledger's answer: a count, or a rejection, whose catch handler   *)
(* reads this.scope of an unbound function and so throws before cb     *)
afterCountById(o, answer) ==
  CASE answer = "rejected" -> [o EXCEPT !.pc = "lost"]
    [] answer = "some" -> Complete(o, "Ignoring already confirmed transaction")
    [] OTHER -> Complete(o, NoError)

(* a raw object handed to objectNormalize: its type and, for each other *)
(* property it has, whether that is null, undefined or a value         *)
RawProps == {"signature", "requesterPublicKey", "recipientId"}

RawObjects ==
  UNION {[type : TrsTypes, props : [S -> {"null", "undefined", "value"}]] :
           S \in SUBSET RawProps}

(* for (var i in trs) { if (trs[i] === null || typeof trs[i] ===   *)
(* 'undefined') { delete trs[i]; } }                               *)
deleteNulls(raw) ==
  [raw EXCEPT !.props =
     [p \in {q \in DOMAIN raw.props : raw.props[q] \notin {"null", "undefined"}}
        |-> raw.props[p]]]

(* Transaction.prototype.objectNormalize: valid is the schema          *)
(* validator's report on the format of the values, handlerThrows the   *)
(* handler's objectNormalize; a required property must be there        *)
objectNormalize(o, valid, handlerThrows) ==
  IF o.trs.type \notin types THEN Raise(o)
  ELSE LET n == [o EXCEPT !.trs = deleteNulls(o.trs)]
       IN IF ~valid \/ "signature" \notin DOMAIN n.trs.props THEN Raise(n)
          ELSE IF handlerThrows THEN Raise(n)
          ELSE [n EXCEPT !.pc = "returned"]

(* the reversing delta and the final result of each operation *)
reverseDelta(o) ==
  CASE o.kind = "apply" -> applyReverseDelta(o.amount, o.block)
    [] o.kind = "undo" -> undoReverseDelta(o.amount, o.block)
    [] o.kind = "applyUnconfirmed" -> applyUnconfirmedReverseDelta(o.amount)
    [] o.kind = "undoUnconfirmed" -> undoUnconfirmedReverseDelta(o.amount)

reverseResult(o, err2) ==
  CASE o.kind = "apply" -> applyReverseResult(err2, o.herr)
    [] o.kind = "undo" -> undoReverseResult(err2, o.herr)
    [] o.kind = "applyUnconfirmed" -> applyUnconfirmedReverseResult(err2, o.herr)
    [] o.kind = "undoUnconfirmed" -> undoUnconfirmedReverseResult(err2, o.herr)

afterFirstMergeIgnoringError(o, err) == CallHandler(o)

(* the callback of the first merge: on error complete with it, otherwise *)
(* invoke the handler's state change                                     *)
afterFirstMerge(o, err) ==
  IF err # NoError THEN Complete(o, err) ELSE CallHandler(o)

(* the callback of the handler: on error issue the reversing merge *)
afterHandler(o, err) ==
  IF err # NoError
  THEN IssueMerge([o EXCEPT !.herr = err], reverseDelta([o EXCEPT !.herr = err]), "merge2")
  ELSE Complete(o, NoError)

(* the callback of the reversing merge *)
afterReverseMerge(o, err2) == Complete(o, reverseResult(o, err2))

(* a call of verify: the sender object, the co-signer keys determined, *)
(* the completion callback's invocations and the handler's             *)
IdleVerify ==
  [pc |-> "idle", cb |-> <<>>, handlerCalls |-> 0, sender |-> NoAccount,
   multisignatures |-> <<>>]

(* no call of verify *)
NoInput == [trs |-> DefaultTrs, sender |-> NoAccount, requester |-> NoRequester,
            handlerFee |-> 0]

(* two calls that may be in flight together, none started *)
IdleOps == [i \in 1..2 |-> IdleOp]

(* a call of sign, verifySignature, verifySecondSignature or getBytes: *)
(* its arguments and what it returned                                  *)
IdleCodec ==
  [pc |-> "idle", trs |-> DefaultTrs, publicKey |-> None, signature |-> NoSig,
   signed |-> FALSE, verified |-> "none", bytes |-> <<>>]

---------------------------------------------------------------------------
(* Actions of Spec *)

Apply ==
  /\ CanStart("apply")
  /\ \E trs \in MutatorTrs, block \in Blocks, exists \in BOOLEAN, handlerReady \in BOOLEAN :
       op' = apply(NewOp("apply", trs, block,
                         IF exists THEN SenderOf(FALSE) ELSE NoAccount, NoRequester),
                   handlerReady)
  /\ UNCHANGED <<store, vin, vst, ops, cx>>

Undo ==
  /\ CanStart("undo")
  /\ \E trs \in TrsGiven(MutatorTrs), block \in BlocksGiven, exists \in BOOLEAN :
       op' = undo(NewOp("undo", trs, block,
                        IF exists THEN SenderOf(FALSE) ELSE NoAccount, NoRequester))
  /\ UNCHANGED <<store, vin, vst, ops, cx>>

ApplyUnconfirmed ==
  /\ CanStart("applyUnconfirmed")
  /\ \E trs \in UnconfirmedTrs, exists \in BOOLEAN, second \in BOOLEAN,
        requester \in Requesters :
       op' = applyUnconfirmed(
               NewOp("applyUnconfirmed", trs, genesisblock,
                     IF exists THEN SenderOf(second) ELSE NoAccount, requester))
  /\ UNCHANGED <<store, vin, vst, ops, cx>>

UndoUnconfirmed ==
  /\ CanStart("undoUnconfirmed")
  /\ \E trs \in TrsGiven(MutatorTrs), exists \in BOOLEAN :
       op' = undoUnconfirmed(
               NewOp("undoUnconfirmed", trs, genesisblock,
                     IF exists THEN SenderOf(FALSE) ELSE NoAccount, NoRequester))
  /\ UNCHANGED <<store, vin, vst, ops, cx>>

(* AccountStore.merge completes: the delta is applied (or not, on error) *)
(* and the merge's callback runs                                         *)
MergeDone ==
  /\ op.pc \in {"merge1", "merge2"}
  /\ \E err \in {NoError, "StoreError"} :
       /\ store' = IF err = NoError THEN merge(store, op.merges[Len(op.merges)]) ELSE store
       /\ op' = LET o == [op EXCEPT !.stored = Append(@, err)]
                IN IF op.pc = "merge1" THEN afterFirstMerge(o, err)
                   ELSE afterReverseMerge(o, err)
  /\ UNCHANGED <<vin, vst, ops, cx>>

(* the handler's apply/undo/applyUnconfirmed/undoUnconfirmed completes *)
HandlerDone ==
  /\ op.pc = "handler"
  /\ \E err \in {NoError, "HandlerError"} : op' = afterHandler(op, err)
  /\ UNCHANGED <<store, vin, vst, ops, cx>>

(* transactions handed to process: unsigned, or signed by K1 or K2, *)
(* with no id, the right id or another one                          *)
WrongId == <<"id", sha256(<<>>)>>

ProcessTrs ==
  LET unsigned == {[DefaultTrs EXCEPT !.type = t, !.requesterPublicKey = r,
                                      !.senderId = None] :
                     t \in TrsTypes, r \in {None, K2}}
      signed == UNION {{[u EXCEPT !.signature = s] :
                          s \in {NoSig, sign(K1, u), sign(K2, u)}} : u \in unsigned}
  IN UNION {{[u EXCEPT !.id = i] : i \in {NoId, getId(u), WrongId}} : u \in signed}

ProcessSenders ==
  {NoAccount} \cup
  {[SenderOf(FALSE) EXCEPT !.multisignatures = m] :
     m \in {NullArr, Arr(<<>>), Arr(<<K2>>)}}

Process ==
  /\ CanStart("process")
  /\ \E trs \in ProcessTrs, sender \in ProcessSenders :
       op' = process(NewOp("process", trs, genesisblock, sender, NoRequester))
  /\ UNCHANGED <<store, vin, vst, ops, cx>>

(* handler.process completes *)
HandlerProcessDone ==
  /\ op.pc = "handlerProcess"
  /\ \E err \in {NoError, "HandlerError"} : op' = afterHandlerProcess(op, err)
  /\ UNCHANGED <<store, vin, vst, ops, cx>>

(* the ledger's countById lookup settles *)
CountByIdDone ==
  /\ op.pc = "countById"
  /\ \E answer \in {"none", "some", "rejected"} : op' = afterCountById(op, answer)
  /\ UNCHANGED <<store, vin, vst, ops, cx>>

(* objectNormalize runs to its return or its throw *)
ObjectNormalize ==
  /\ CanStart("objectNormalize")
  /\ \E raw \in RawObjects, valid \in BOOLEAN, handlerThrows \in BOOLEAN :
       op' = objectNormalize(NewOp("objectNormalize", raw, genesisblock, NoAccount,
                                   NoRequester),
                             valid, handlerThrows)
  /\ UNCHANGED <<store, vin, vst, ops, cx>>

(* the caller is done with the finished call *)
Return ==
  /\ AtRest(op)
  /\ op.pc # "idle"
  /\ op' = IdleOp
  /\ UNCHANGED <<store, vin, vst, ops, cx>>

Init ==
  /\ store \in [balance : 0..MaxBalance, u_balance : 0..MaxBalance]
  /\ op = IdleOp
  /\ vin = NoInput
  /\ vst = IdleVerify
  /\ ops = IdleOps
  /\ cx = IdleCodec

Next ==
  \/ Apply
  \/ Undo
  \/ ApplyUnconfirmed
  \/ UndoUnconfirmed
  \/ MergeDone
  \/ HandlerDone
  \/ Process
  \/ HandlerProcessDone
  \/ CountByIdDone
  \/ ObjectNormalize
  \/ Return

Spec == Init /\ [][Next]_vars

---------------------------------------------------------------------------
(* Transaction.prototype.verify *)

(* exceptions.senderPublicKey: ids exempt from the public-key check *)
ExceptedId == <<"id", sha256(<<"excepted">>)>>
senderPublicKeyExceptions == {ExceptedId}

(* String.prototype.toUpperCase on the addresses of the model *)
toUpperCase(s) == IF s = "1l" THEN "1L" ELSE s

(* slots.getSlotNumber *)
getSlotNumber(epochTime) == epochTime \div SlotInterval

(* key.slice(1) on a keysgroup entry: the key without its +/- prefix *)
slice1(entry) == entry.key

(* keysgroup.map(function (key) { return key.slice(1); }) *)
stripPrefixes(keysgroup) == [i \in 1..Len(keysgroup) |-> slice1(keysgroup[i])]

(* the checks of verify, each true when the transaction passes it *)
checkType(trs) == trs.type \in types

checkSender(sender) == sender.exists

checkSenderPublicKey(trs, sender) ==
  sender.publicKey = trs.senderPublicKey \/ trs.id \in senderPublicKeyExceptions

checkSenderAddress(trs, sender) ==
  toUpperCase(trs.senderId) = toUpperCase(sender.address)

checkRequester(trs, sender) ==
  trs.requesterPublicKey # None =>
    Contains(sender.multisignatures.items, trs.requesterPublicKey)

checkSignature(trs) ==
  verifySignature(trs,
                  IF trs.requesterPublicKey # None THEN trs.requesterPublicKey
                  ELSE trs.senderPublicKey,
                  trs.signature) = "true"

checkSecondSignature(trs, sender, requester) ==
  IF trs.requesterPublicKey = None /\ sender.secondSignature
  THEN verifySecondSignature(trs, sender.secondPublicKey, trs.signSignature) = "true"
  ELSE IF trs.requesterPublicKey # None /\ requester.secondSignature
  THEN verifySecondSignature(trs, requester.secondPublicKey, trs.signSignature) = "true"
  ELSE TRUE

checkUnique(trs) ==
  LET sigs == trs.signatures.items
  IN \A i, j \in 1..Len(sigs) : sigs[i] = sigs[j] => i = j

(* the co-signer keys, as determined from the sender or the asset: *)
(* a || b || [] takes the first operand that is not null, and an   *)
(* empty array is not null                                         *)
cosigners(trs, sender) ==
  LET fromSender ==
        IF ~sender.multisignatures.isNull THEN sender.multisignatures.items
        ELSE IF ~sender.u_multisignatures.isNull THEN sender.u_multisignatures.items
        ELSE <<>>
  IN IF Len(fromSender) = 0 /\ ~trs.keysgroup.isNull
     THEN stripPrefixes(trs.keysgroup.items)
     ELSE fromSender

(* the co-signer keys with the sender's key pushed when a requester is set *)
withSenderKey(trs, keys) ==
  IF trs.requesterPublicKey # None THEN Append(keys, trs.senderPublicKey) ELSE keys

(* the sender object after the push: the array pushed to is the        *)
(* sender's own whenever the co-signer keys were taken from the sender *)
senderAfterPush(trs, sender) ==
  IF trs.requesterPublicKey = None THEN sender
  ELSE IF ~sender.multisignatures.isNull
  THEN IF Len(sender.multisignatures.items) = 0 /\ ~trs.keysgroup.isNull THEN sender
       ELSE [sender EXCEPT !.multisignatures.items = Append(@, trs.senderPublicKey)]
  ELSE IF ~sender.u_multisignatures.isNull
  THEN IF Len(sender.u_multisignatures.items) = 0 /\ ~trs.keysgroup.isNull THEN sender
       ELSE [sender EXCEPT !.u_multisignatures.items = Append(@, trs.senderPublicKey)]
  ELSE sender

checkMultisignatures(trs, sender) ==
  LET multisignatures == withSenderKey(trs, cosigners(trs, sender))
  IN trs.signatures.isNull \/
     \A d \in 1..Len(trs.signatures.items) :
       \E s \in 1..Len(multisignatures) :
         /\ ~(trs.requesterPublicKey # None /\ multisignatures[s] = trs.requesterPublicKey)
         /\ verifySignature(trs, multisignatures[s], trs.signatures.items[d]) = "true"

checkFeeEquality(trs, handlerFee) == trs.fee = handlerFee

(* fee = calculateFee(trs, sender) || false; !fee || trs.fee !== fee *)
checkFee(trs, handlerFee) == ~(handlerFee = 0 \/ trs.fee # handlerFee)

checkAmount(trs) == ~(trs.amount < 0 \/ trs.amount > totalAmount)

checkTimestamp(trs) == ~(getSlotNumber(trs.timestamp) > getSlotNumber(CurrentTime))

VComplete(v, err) == [v EXCEPT !.pc = "done", !.cb = Append(@, err)]
VRaise(v) == [v EXCEPT !.pc = "raised"]

verifyTailAmountFirst(v, trs, handlerFee) ==
  IF ~checkAmount(trs) THEN VComplete(v, "Invalid transaction amount")
  ELSE IF ~checkFee(trs, handlerFee) THEN VComplete(v, "Invalid transaction fee")
  ELSE IF ~checkTimestamp(trs) THEN VComplete(v, "Invalid transaction timestamp")
  ELSE [v EXCEPT !.pc = "handler", !.handlerCalls = @ + 1]

(* verify from the fee check on: fee, amount, timestamp, then the handler *)
verifyTail(v, trs, handlerFee) ==
  IF ~checkFee(trs, handlerFee) THEN VComplete(v, "Invalid transaction fee")
  ELSE IF ~checkAmount(trs) THEN VComplete(v, "Invalid transaction amount")
  ELSE IF ~checkTimestamp(trs) THEN VComplete(v, "Invalid transaction timestamp")
  ELSE [v EXCEPT !.pc = "handler", !.handlerCalls = @ + 1]

(* verify from the uniqueness check on *)
verifyMultisignatures(v, trs, sender, handlerFee) ==
  IF ~checkUnique(trs)
  THEN VComplete(v, "Encountered duplicate signature in transaction")
  ELSE LET pushed == [v EXCEPT !.multisignatures = cosigners(trs, sender),
                               !.sender = senderAfterPush(trs, sender)]
       IN IF ~checkMultisignatures(trs, sender)
          THEN VComplete(pushed, "Failed to verify multisignature")
          ELSE verifyTail(pushed, trs, handlerFee)

(* verify, up to the handler's verify *)
verify(trs, sender, requester, handlerFee) ==
  LET v == [IdleVerify EXCEPT !.sender = sender]
  IN
  IF ~checkType(trs) THEN VComplete(v, "Unknown transaction type")
  ELSE IF ~checkSender(sender) THEN VComplete(v, "Missing sender")
  ELSE IF ~checkSenderPublicKey(trs, sender) THEN VComplete(v, "Invalid sender public key")
  ELSE IF ~checkSenderAddress(trs, sender) THEN VComplete(v, "Invalid sender address")
  ELSE IF trs.requesterPublicKey # None /\ sender.multisignatures.isNull THEN VRaise(v)
  ELSE IF ~checkRequester(trs, sender) THEN VComplete(v, "Invalid requester public key")
  ELSE IF ~checkSignature(trs) THEN VComplete(v, "Failed to verify signature")
  ELSE IF trs.requesterPublicKey # None /\ requester.kind = "undefined" THEN VRaise(v)
  ELSE IF ~checkSecondSignature(trs, sender, requester)
  THEN VComplete(v, "Failed to verify second signature")
  ELSE verifyMultisignatures(v, trs, sender, handlerFee)

(* the callback of the handler's verify passes its error on *)
afterHandlerVerify(v, err) == VComplete(v, err)

---------------------------------------------------------------------------
(* The arguments of verify *)

VerifySender(publicKey, second, ms, ums) ==
  [NoAccount EXCEPT
     !.exists = TRUE, !.address = SenderAddress, !.publicKey = publicKey,
     !.secondSignature = second, !.secondPublicKey = IF second THEN K4 ELSE None,
     !.multisignatures = ms, !.u_multisignatures = ums]

(* a transaction with its signatures made over it and its id derived: *)
(* signer signs it, second (if any) signs it again, cosigners co-sign *)
Signed(base, signer, second, cosignerKeys, ownId) ==
  LET t1 == IF signer = None THEN base
            ELSE [base EXCEPT !.signature = sign(signer, base)]
      t2 == IF second = None THEN t1
            ELSE [t1 EXCEPT !.signSignature = sign(second, t1)]
      t3 == IF cosignerKeys.isNull THEN t2
            ELSE [t2 EXCEPT !.signatures =
                    Arr([i \in 1..Len(cosignerKeys.items) |->
                           multisign(cosignerKeys.items[i], t2)])]
  IN [t3 EXCEPT !.id = IF ownId THEN getId(t3) ELSE ExceptedId]

VerifyAmounts == {-1, 0, totalAmount, totalAmount + 1}

(* every combination of type, sender, keys, address, signatures, fee, *)
(* amount and timestamp, with few co-signer configurations            *)
FrontInputs ==
  {[trs |-> Signed([DefaultTrs EXCEPT
                      !.type = type, !.senderId = senderId,
                      !.requesterPublicKey = requesterPublicKey,
                      !.amount = amount, !.fee = fee, !.timestamp = timestamp],
                   signer, second, cosignerKeys, ownId),
    sender |-> sender, requester |-> requester, handlerFee |-> handlerFee] :
     type \in TrsTypes, senderId \in {"1l", "2L"}, requesterPublicKey \in {None, K2},
     amount \in VerifyAmounts, fee \in 0..MaxFee,
     timestamp \in {CurrentTime, CurrentTime + SlotInterval},
     signer \in {None, K1, K2}, second \in {None, K4},
     cosignerKeys \in {NullArr, Arr(<<K3>>)}, ownId \in BOOLEAN,
     sender \in {NoAccount} \cup
                {VerifySender(k, s, ms, Arr(<<K3>>)) :
                   k \in {K1, K2}, s \in BOOLEAN, ms \in {NullArr, Arr(<<K2>>)}},
     requester \in {NoRequester, CallbackAsRequester, RequesterAccount(TRUE)},
     handlerFee \in 0..MaxFee}

(* every co-signer configuration of an otherwise valid transaction *)
CosignInputs ==
  {[trs |-> Signed([DefaultTrs EXCEPT
                      !.senderId = "1l",
                      !.requesterPublicKey = requesterPublicKey,
                      !.fee = fee, !.timestamp = CurrentTime, !.keysgroup = keysgroup],
                   IF requesterPublicKey = None THEN K1 ELSE requesterPublicKey,
                   None, cosignerKeys, TRUE),
    sender |-> VerifySender(K1, FALSE, ms, ums),
    requester |-> requester, handlerFee |-> fee] :
     requesterPublicKey \in {None, K2}, fee \in 1..MaxFee,
     keysgroup \in {NullArr, Arr(<<[action |-> "+", key |-> K5]>>)},
     cosignerKeys \in {NullArr, Arr(<<>>), Arr(<<K3>>), Arr(<<K3, K3>>), Arr(<<K5>>),
                       Arr(<<K1>>), Arr(<<K2>>), Arr(<<K3, K5>>)},
     ms \in {NullArr, Arr(<<>>), Arr(<<K2>>), Arr(<<K2, K3>>)},
     ums \in {NullArr, Arr(<<>>), Arr(<<K3>>)},
     requester \in {CallbackAsRequester, RequesterAccount(FALSE)}}

VerifyInputs == FrontInputs \cup CosignInputs

---------------------------------------------------------------------------
(* Actions of SpecVerify *)

Verify ==
  /\ vst.pc = "idle"
  /\ vst' = verify(vin.trs, vin.sender, vin.requester, vin.handlerFee)
  /\ UNCHANGED <<store, op, vin, ops, cx>>

(* the handler's verify completes *)
HandlerVerifyDone ==
  /\ vst.pc = "handler"
  /\ \E err \in {NoError, "HandlerError"} : vst' = afterHandlerVerify(vst, err)
  /\ UNCHANGED <<store, op, vin, ops, cx>>

InitVerify ==
  /\ store = [balance |-> 0, u_balance |-> 0]
  /\ op = IdleOp
  /\ vin \in VerifyInputs
  /\ vst = IdleVerify
  /\ ops = IdleOps
  /\ cx = IdleCodec

NextVerify ==
  \/ Verify
  \/ HandlerVerifyDone

SpecVerify == InitVerify /\ [][NextVerify]_vars

---------------------------------------------------------------------------
(* Two calls of applyUnconfirmed on one sender, under SpecPair: each   *)
(* caller reads the sender from the store and calls; the merges and    *)
(* the handlers of the two calls complete in any order                 *)

(* transactions of a registered type without requester or second signature *)
PairTrs ==
  {t \in MutatorTrs : t.type \in types}

ApplyUnconfirmedPair ==
  /\ InRange
  /\ \E i \in 1..2 :
       /\ ops[i].pc = "idle"
       /\ \E trs \in PairTrs :
            ops' = [ops EXCEPT ![i] =
                      applyUnconfirmed(NewOp("applyUnconfirmed", trs, genesisblock,
                                             SenderOf(FALSE), NoRequester))]
  /\ UNCHANGED <<store, op, vin, vst, cx>>

(* AccountStore.merge completes for one of the calls *)
MergeDonePair ==
  /\ \E i \in 1..2 :
       /\ ops[i].pc \in {"merge1", "merge2"}
       /\ \E err \in {NoError, "StoreError"} :
            /\ store' = IF err = NoError
                        THEN merge(store, ops[i].merges[Len(ops[i].merges)])
                        ELSE store
            /\ ops' = [ops EXCEPT ![i] =
                         LET o == [ops[i] EXCEPT !.stored = Append(@, err)]
                         IN IF ops[i].pc = "merge1" THEN afterFirstMerge(o, err)
                            ELSE afterReverseMerge(o, err)]
  /\ UNCHANGED <<op, vin, vst, cx>>

(* the handler's applyUnconfirmed completes for one of the calls *)
HandlerDonePair ==
  /\ \E i \in 1..2 :
       /\ ops[i].pc = "handler"
       /\ \E err \in {NoError, "HandlerError"} :
            ops' = [ops EXCEPT ![i] = afterHandler(ops[i], err)]
  /\ UNCHANGED <<store, op, vin, vst, cx>>

(* the caller is done with a finished call *)
ReturnPair ==
  /\ \E i \in 1..2 :
       /\ AtRest(ops[i])
       /\ ops[i].pc # "idle"
       /\ ops' = [ops EXCEPT ![i] = IdleOp]
  /\ UNCHANGED <<store, op, vin, vst, cx>>

InitPair ==
  /\ store \in [balance : {0}, u_balance : 0..MaxBalance]
  /\ op = IdleOp
  /\ vin = NoInput
  /\ vst = IdleVerify
  /\ ops = IdleOps
  /\ cx = IdleCodec

NextPair ==
  \/ ApplyUnconfirmedPair
  \/ MergeDonePair
  \/ HandlerDonePair
  \/ ReturnPair

SpecPair == InitPair /\ [][NextPair]_vars

---------------------------------------------------------------------------
(* The codec and the signature engine, under SpecCodec: sign, getBytes, *)
(* verifySignature and verifySecondSignature applied to arguments drawn *)
(* from bounded sets                                                    *)

(* timestamps over the signed 32-bit range, its ends included *)
Timestamps ==
  {-2147483647 - 1, -16777216, -65536, -256, -1, 0, 1, 255, 256, 65536,
   141738, 16777216, 2147483647}

(* transactions that may already carry a signature and a second signature *)
CodecTrs ==
  LET bare == {[DefaultTrs EXCEPT !.type = t, !.timestamp = ts] :
                 t \in TrsTypes, ts \in Timestamps}
      first == UNION {{[b EXCEPT !.signature = g] :
                         g \in {NoSig, SomeSig, sign(K1, b)}} : b \in bare}
  IN UNION {{[f EXCEPT !.signSignature = g] : g \in {NoSig, SomeSig}} : f \in first}

(* sign(keypair, trs): getHash raises for an unregistered type *)
Sign ==
  /\ cx.pc = "idle"
  /\ cx' = IF cx.trs.type \notin types THEN [cx EXCEPT !.pc = "raised"]
           ELSE [cx EXCEPT !.pc = "signed", !.signed = TRUE,
                           !.signature = sign(cx.publicKey, cx.trs)]
  /\ UNCHANGED <<store, op, vin, vst, ops>>

(* verifySignature(trs, publicKey, signature), on the signature given or *)
(* on the one sign has just returned                                     *)
VerifyPrimary ==
  /\ cx.pc \in {"idle", "signed"}
  /\ cx' = [cx EXCEPT !.pc = "verifiedPrimary",
                      !.verified = verifySignature(cx.trs, cx.publicKey, cx.signature)]
  /\ UNCHANGED <<store, op, vin, vst, ops>>

(* verifySecondSignature(trs, publicKey, signature) *)
VerifySecondary ==
  /\ cx.pc \in {"idle", "signed"}
  /\ cx' = [cx EXCEPT !.pc = "verifiedSecondary",
                      !.verified = verifySecondSignature(cx.trs, cx.publicKey, cx.signature)]
  /\ UNCHANGED <<store, op, vin, vst, ops>>

(* getBytes(trs): raises for an unregistered type *)
GetBytes ==
  /\ cx.pc = "idle"
  /\ cx' = IF cx.trs.type \notin types THEN [cx EXCEPT !.pc = "raised"]
           ELSE [cx EXCEPT !.pc = "bytes", !.bytes = getBytes(cx.trs, FALSE, FALSE)]
  /\ UNCHANGED <<store, op, vin, vst, ops>>

InitCodec ==
  /\ store = [balance |-> 0, u_balance |-> 0]
  /\ op = IdleOp
  /\ vin = NoInput
  /\ vst = IdleVerify
  /\ ops = IdleOps
  /\ cx \in {[IdleCodec EXCEPT !.trs = t, !.publicKey = k, !.signature = g] :
               t \in CodecTrs, k \in {K1, K2}, g \in {NoSig, SomeSig}}

NextCodec ==
  \/ Sign
  \/ VerifyPrimary
  \/ VerifySecondary
  \/ GetBytes

SpecCodec == InitCodec /\ [][NextCodec]_vars

---------------------------------------------------------------------------
(* Properties of the state-changing operations, under Spec *)

(* the handler failed after the first merge and the reversing merge succeeded *)
RolledBack(kind) ==
  /\ op.kind = kind
  /\ op.pc = "done"
  /\ op.herr # NoError
  /\ op.stored = <<NoError, NoError>>

(* C1: when handler.apply fails after a successful balance merge and the *)
(* reversing merge succeeds, the confirmed balance after apply equals    *)
(* its value before apply was called.                                    *)
C1_ApplyRollbackRestoresBalance ==
  RolledBack("apply") => store.balance = op.pre

C1_Witness == RolledBack("apply") /\ op.amount > 0

(* C2: when handler.apply fails and the reversing merge succeeds, the   *)
(* completion callback of apply receives the handler's error, never     *)
(* success.                                                             *)
C2_ApplyRollbackSurfacesHandlerError ==
  RolledBack("apply") => op.cb = <<op.herr>>

(* C3: when handler.undo fails after undo credited amount+fee, the      *)
(* compensating merge reverses the credit, so the confirmed balance     *)
(* equals its value before undo, and the caller gets the handler error. *)
C3_UndoRollbackRestoresBalance ==
  RolledBack("undo") => (store.balance = op.pre /\ op.cb = <<op.herr>>)

(* this call undoes the call that succeeded just before it, on the same *)
(* transaction and block, and has itself succeeded                      *)
RoundTrip(kind) == Succeeded(op, kind) /\ op.prev.set

(* C4: apply(t) then undo(t), both succeeding with their handlers, on a *)
(* sender whose balance covered amount+fee, leave the confirmed balance *)
(* at its value before apply.                                           *)
C4_ApplyUndoRoundTrip ==
  (RoundTrip("undo") /\ op.prev.pre >= op.trs.amount + op.trs.fee)
    => store.balance = op.prev.pre

C4_Witness ==
  /\ RoundTrip("undo")
  /\ op.prev.pre >= op.trs.amount + op.trs.fee
  /\ op.trs.amount > 0
  /\ op.trs.fee > 0
  /\ op.trs.blockId # genesisblock.id

(* C5: applyUnconfirmed(t) then undoUnconfirmed(t), both succeeding, on *)
(* a sender whose u_balance covered amount+fee, leave u_balance at its  *)
(* value before applyUnconfirmed, and the confirmed balance untouched.  *)
C5_UnconfirmedRoundTrip ==
  (RoundTrip("undoUnconfirmed") /\ op.prev.preU >= op.trs.amount + op.trs.fee)
    => (store.u_balance = op.prev.preU /\ store.balance = op.prev.pre)

C5_Witness ==
  /\ RoundTrip("undoUnconfirmed")
  /\ op.prev.preU >= op.trs.amount + op.trs.fee
  /\ op.trs.amount > 0
  /\ op.trs.fee > 0
  /\ op.trs.blockId # genesisblock.id

(* C6: every invocation that does not throw invokes its completion      *)
(* callback exactly once, whatever the store, the handler and the       *)
(* ledger answer: never twice, and once when nothing is left pending.   *)
C6_CallbackExactlyOnce ==
  /\ Len(op.cb) <= 1
  /\ op.pc \in {"done", "lost"} => Len(op.cb) = 1

(* the sender's balance does not cover amount+fee *)
ExceedsBalance(o) ==
  o.sender.exists /\ o.sender.balance < o.trs.amount + o.trs.fee

(* C11: in apply the insufficient-balance check is skipped exactly when *)
(* the block passed to apply is the genesis block: with any other block *)
(* a sender whose balance is below amount+fee is rejected and no merge  *)
(* is issued, and with the genesis block it is not rejected for its     *)
(* balance.                                                             *)
C11_GenesisBlockSkipsBalanceCheck ==
  (op.kind = "apply" /\ op.trs.type \in types /\ ExceedsBalance(op))
    => IF op.block.id = genesisblock.id
       THEN op.cb # <<"Account has no LISK">>
       ELSE op.pc = "done" /\ op.merges = <<>> /\ Len(op.cb) = 1 /\ op.cb[1] # NoError

(* applyUnconfirmed was called for a transaction without a requester *)
NoRequesterCall ==
  /\ op.kind = "applyUnconfirmed"
  /\ op.trs.requesterPublicKey = None
  /\ op.sender.exists

MissingSecond ==
  /\ NoRequesterCall
  /\ op.sender.secondSignature
  /\ ~Present(op.trs.signSignature)
  /\ op.trs.blockId # genesisblock.id

UnexpectedSecond ==
  /\ NoRequesterCall
  /\ ~op.sender.secondSignature
  /\ Present(op.trs.signSignature)

(* C12: applyUnconfirmed without a requester public key checks the      *)
(* second signature before touching state: a sender with a second       *)
(* signature and a non-genesis transaction without signSignature        *)
(* completes with 'Missing sender second signature' (for a transaction  *)
(* the core dispatches, i.e. of a registered type); a sender without a  *)
(* second signature and a transaction with signSignature completes with *)
(* an error; in both cases no merge is issued and the handler is not    *)
(* invoked.                                                             *)
C12_SecondSignaturePreCheck ==
  /\ (MissingSecond /\ op.trs.type \in types)
       => op.cb = <<"Missing sender second signature">>
  /\ (MissingSecond \/ UnexpectedSecond)
       => /\ op.pc = "done"
          /\ Len(op.cb) = 1
          /\ op.cb[1] # NoError
          /\ op.merges = <<>>
          /\ op.handlerCalls = 0

C12_Witness ==
  /\ MissingSecond
  /\ op.trs.type \in types
  /\ op.pc = "done"
  /\ op.trs.amount > 0
  /\ op.sender.u_balance >= op.trs.amount + op.trs.fee

(* the handler failed after the first merge and the reversing merge failed *)
BothFailed(kind) ==
  /\ op.kind = kind
  /\ op.pc = "done"
  /\ op.herr # NoError
  /\ op.stored = <<NoError, "StoreError">>

(* C13: in apply, undo, applyUnconfirmed and undoUnconfirmed, when the  *)
(* handler fails and the reversing merge fails too, the caller receives *)
(* the store's error, not the handler's; when the reversing merge       *)
(* succeeds in applyUnconfirmed or undoUnconfirmed the caller receives  *)
(* the handler's error.                                                 *)
C13_ReversalErrorPrecedence ==
  /\ \A kind \in {"apply", "undo", "applyUnconfirmed", "undoUnconfirmed"} :
       BothFailed(kind) => op.cb = <<op.stored[2]>>
  /\ \A kind \in {"applyUnconfirmed", "undoUnconfirmed"} :
       RolledBack(kind) => op.cb = <<op.herr>>

C13_Witness == BothFailed("applyUnconfirmed") /\ op.cb = <<"StoreError">>


(* process assigns the id it computed: the record carried none, or that one *)
IdAssigned(o) ==
  o.given.type \in types /\ (o.given.id = NoId \/ o.given.id = getId(o.given))

(* C19, as amended: the operations other than create leave the record  *)
(* they are given unchanged, except that process sets id to the id it  *)
(* recomputed and senderId to the sender's address, and objectNormalize *)
(* removes the properties whose value is null or undefined: apply,      *)
(* undo, applyUnconfirmed and undoUnconfirmed change no field.          *)
C19_RecordChanges ==
  /\ op.kind \in {"apply", "undo", "applyUnconfirmed", "undoUnconfirmed"}
       => op.trs = op.given
  /\ op.kind = "process"
       => op.trs = [op.given EXCEPT
                      !.id = IF IdAssigned(op) THEN getId(op.given) ELSE @,
                      !.senderId = IF IdAssigned(op) /\ op.sender.exists
                                   THEN op.sender.address ELSE @]
  /\ op.kind = "objectNormalize"
       => /\ op.trs.type = op.given.type
          /\ DOMAIN op.trs.props =
               IF op.given.type \in types
               THEN {p \in DOMAIN op.given.props :
                       op.given.props[p] \notin {"null", "undefined"}}
               ELSE DOMAIN op.given.props
          /\ \A p \in DOMAIN op.trs.props : op.trs.props[p] = op.given.props[p]

C19_Witness ==
  /\ op.kind = "process"
  /\ op.pc = "done"
  /\ op.cb = <<NoError>>
  /\ op.given.id = NoId
  /\ op.trs.id = getId(op.given)
  /\ op.given.senderId # op.sender.address
  /\ op.trs.senderId = op.sender.address

(* C19, as claimed: process, the four state-changing operations and     *)
(* objectNormalize leave id, senderId and every other field of the      *)
(* record they are given unchanged.                                     *)
C19_RecordUnchanged ==
  op.kind # "none" => op.trs = op.given

(* the first merge of a state-changing operation reported an error *)
FirstMergeFailed ==
  /\ op.kind \in {"apply", "undo", "applyUnconfirmed", "undoUnconfirmed"}
  /\ Len(op.stored) >= 1
  /\ op.stored[1] # NoError

(* C22: in apply, undo, applyUnconfirmed and undoUnconfirmed the        *)
(* handler's state change is invoked only after the balance merge has   *)
(* completed successfully: when the first merge reports an error the    *)
(* handler is never invoked, no further merge is issued and the store's *)
(* error is delivered to the caller.                                    *)
C22_HandlerAfterMerge ==
  /\ FirstMergeFailed
       => /\ op.pc = "done"
          /\ op.handlerCalls = 0
          /\ Len(op.merges) = 1
          /\ op.cb = <<op.stored[1]>>
  /\ (op.kind \in {"apply", "undo", "applyUnconfirmed", "undoUnconfirmed"}
        /\ op.handlerCalls > 0)
       => (Len(op.stored) >= 1 /\ op.stored[1] = NoError)

C22_Witness ==
  /\ FirstMergeFailed
  /\ op.kind = "undo"
  /\ op.amount > 0
  /\ op.cb = <<"StoreError">>

---------------------------------------------------------------------------
(* Properties of verify, under SpecVerify *)

(* the k-th check of the pipeline passes on the arguments of the call *)
Passes(k) ==
  CASE k = 1 -> checkType(vin.trs)
    [] k = 2 -> checkSender(vin.sender)
    [] k = 3 -> checkSenderPublicKey(vin.trs, vin.sender)
    [] k = 4 -> checkSenderAddress(vin.trs, vin.sender)
    [] k = 5 -> checkRequester(vin.trs, vin.sender)
    [] k = 6 -> checkSignature(vin.trs)
    [] k = 7 -> checkSecondSignature(vin.trs, vin.sender, vin.requester)
    [] k = 8 -> checkUnique(vin.trs)
    [] k = 9 -> checkMultisignatures(vin.trs, vin.sender)
    [] k = 10 -> checkFee(vin.trs, vin.handlerFee)
    [] k = 11 -> checkAmount(vin.trs)
    [] k = 12 -> checkTimestamp(vin.trs)

ErrorOf(k) ==
  CASE k = 1 -> "Unknown transaction type"
    [] k = 2 -> "Missing sender"
    [] k = 3 -> "Invalid sender public key"
    [] k = 4 -> "Invalid sender address"
    [] k = 5 -> "Invalid requester public key"
    [] k = 6 -> "Failed to verify signature"
    [] k = 7 -> "Failed to verify second signature"
    [] k = 8 -> "Encountered duplicate signature in transaction"
    [] k = 9 -> "Failed to verify multisignature"
    [] k = 10 -> "Invalid transaction fee"
    [] k = 11 -> "Invalid transaction amount"
    [] k = 12 -> "Invalid transaction timestamp"

Failing == {k \in 1..12 : ~Passes(k)}

Earliest(S) == CHOOSE k \in S : \A j \in S : k <= j

(* C7: verify checks in the order type, sender, sender public key,      *)
(* sender address, requester, signature, second signature, unique       *)
(* signatures, multisignature, fee, amount, timestamp, handler: the     *)
(* error it reports is that of the earliest failing check, and the      *)
(* handler's verify is invoked only when all twelve checks passed.      *)
C7_ChecksInOrder ==
  /\ (vst.pc = "done" /\ vst.handlerCalls = 0)
       => (Failing # {} /\ vst.cb = <<ErrorOf(Earliest(Failing))>>)
  /\ vst.handlerCalls > 0 => Failing = {}

C7_Witness ==
  /\ vst.pc = "done"
  /\ vst.cb = <<"Invalid transaction fee">>
  /\ ~checkAmount(vin.trs)
  /\ ~checkTimestamp(vin.trs)

(* verify has passed checks 1-9 and gone on to the fee check *)
PassedNine ==
  /\ vst.pc \in {"done", "handler"}
  /\ \A k \in 1..9 : Passes(k)

FeeRejected == vst.cb = <<"Invalid transaction fee">>

(* C8, as amended: past checks 1-9, verify fails with 'Invalid          *)
(* transaction fee' exactly when the handler's fee is zero or trs.fee   *)
(* differs from it.                                                     *)
C8_FeeCheck ==
  PassedNine => (FeeRejected <=> (vin.handlerFee = 0 \/ vin.trs.fee # vin.handlerFee))

C8_Witness ==
  PassedNine /\ vin.handlerFee = 0 /\ vin.trs.fee = 0 /\ FeeRejected

(* C8, as claimed: past checks 1-9, verify fails with 'Invalid          *)
(* transaction fee' exactly when trs.fee differs from the handler's     *)
(* fee, a fee of zero included.                                         *)
C8_FeeCheckAsClaimed ==
  PassedNine => (FeeRejected <=> vin.trs.fee # vin.handlerFee)

(* verify has passed checks 1-8 and determined the co-signer keys *)
PassedEight ==
  /\ vst.pc \in {"done", "handler"}
  /\ \A k \in 1..8 : Passes(k)

NonEmpty(arr) == ~arr.isNull /\ Len(arr.items) > 0

(* C9: the co-signer keys are sender.multisignatures when non-empty,    *)
(* otherwise sender.u_multisignatures when non-empty, and only when     *)
(* both are empty the keys of asset.multisignature.keysgroup without    *)
(* their prefix.                                                        *)
C9_CosignerSet ==
  PassedEight =>
    vst.multisignatures =
      IF NonEmpty(vin.sender.multisignatures) THEN vin.sender.multisignatures.items
      ELSE IF NonEmpty(vin.sender.u_multisignatures) THEN vin.sender.u_multisignatures.items
      ELSE IF ~vin.trs.keysgroup.isNull THEN stripPrefixes(vin.trs.keysgroup.items)
      ELSE <<>>

(* C10: verify, apply, undo, applyUnconfirmed and undoUnconfirmed never *)
(* raise an exception to the caller, whatever their arguments.          *)
C10_NeverRaises ==
  /\ vst.pc # "raised"
  /\ op.kind \in {"apply", "undo", "applyUnconfirmed", "undoUnconfirmed"}
       => op.pc # "raised"

(* the transaction with the id the core computes for it *)
WithOwnId(trs) == [trs EXCEPT !.id = getId(trs)]

(* how a call of verify went: rejected by a check, raised, or the *)
(* handler's verify reached                                       *)
Outcome(v) ==
  IF v.pc = "raised" THEN "raised"
  ELSE IF v.handlerCalls > 0 \/ v.pc = "handler" THEN "handler"
  ELSE "rejected"

(* C15: an id supplied in the input that differs from the id recomputed *)
(* from the canonical bytes never influences the outcome of verify      *)
(* other than by causing rejection: the call is rejected, or it goes as *)
(* it does for the same transaction carrying the recomputed id.         *)
C15_IdRecomputed ==
  (vst.pc # "idle" /\ vin.trs.id # getId(vin.trs))
    => \/ Outcome(vst) = "rejected"
       \/ Outcome(vst) = Outcome(verify(WithOwnId(vin.trs), vin.sender,
                                        vin.requester, vin.handlerFee))

(* C18: a transaction whose signatures contain the same signature twice *)
(* fails verify, the callback receiving an error, whatever the sender's *)
(* co-signer keys and the other fields are.                             *)
C18_DuplicateSignaturesRejected ==
  (vst.pc # "idle" /\ ~checkUnique(vin.trs))
    => (vst.pc = "done" /\ Len(vst.cb) = 1 /\ vst.cb[1] # NoError)

(* C21: verify does not modify the sender account it is given: after   *)
(* a call, also one for a transaction with a requester public key,      *)
(* sender.multisignatures and sender.u_multisignatures hold exactly the *)
(* elements they held before.                                           *)
C21_SenderUnchanged ==
  vst.pc # "idle" =>
    /\ vst.sender.multisignatures = vin.sender.multisignatures
    /\ vst.sender.u_multisignatures = vin.sender.u_multisignatures

---------------------------------------------------------------------------
(* Properties of two calls in flight, under SpecPair *)

(* the call passed the balance check of a non-genesis transaction and *)
(* issued its merge                                                   *)
PassedBalanceCheck(o) ==
  /\ o.kind = "applyUnconfirmed"
  /\ o.trs.blockId # genesisblock.id
  /\ Len(o.merges) >= 1

(* C14: two calls of applyUnconfirmed on the same sender that are in    *)
(* flight together never both pass the u_balance >= amount+fee check    *)
(* and together drive the sender's u_balance below zero (non-genesis    *)
(* transactions): check and merge of each are atomic to the other.      *)
C14_BalanceCheckAtomic ==
  (PassedBalanceCheck(ops[1]) /\ PassedBalanceCheck(ops[2]))
    => store.u_balance >= 0

---------------------------------------------------------------------------
(* Properties of the codec and the signature engine, under SpecCodec *)

(* verifySignature has answered for a signature that sign has just made *)
(* over the same transaction with the key pair of its senderPublicKey   *)
SignedAndVerified ==
  /\ cx.pc = "verifiedPrimary"
  /\ cx.signed
  /\ cx.trs.type \in types
  /\ cx.publicKey = cx.trs.senderPublicKey

(* C16, as amended: for a transaction t of a registered type that       *)
(* carries neither signature nor signSignature when sign is called,     *)
(* verifySignature(t, t.senderPublicKey, sign(k, t)) is true for the    *)
(* key pair k of t.senderPublicKey.                                     *)
C16_SignThenVerify ==
  (SignedAndVerified /\ ~Present(cx.trs.signature) /\ ~Present(cx.trs.signSignature))
    => cx.verified = "true"

C16_Witness ==
  /\ SignedAndVerified
  /\ ~Present(cx.trs.signature)
  /\ ~Present(cx.trs.signSignature)
  /\ cx.verified = "true"

(* C16, as claimed: verifySignature(t, t.senderPublicKey, sign(k, t))   *)
(* is true whether or not t already carries a signature or a            *)
(* signSignature when sign is called.                                   *)
C16_SignThenVerifyAsClaimed ==
  SignedAndVerified => cx.verified = "true"

(* verifySignature or verifySecondSignature has answered for a missing *)
(* signature                                                           *)
VerifiedMissing ==
  /\ cx.pc \in {"verifiedPrimary", "verifiedSecondary"}
  /\ ~Present(cx.signature)

(* C17, as amended: called with a missing or empty signature,           *)
(* verifySignature and verifySecondSignature return false and do not    *)
(* raise for a transaction of a registered type, and raise 'Unknown     *)
(* transaction type' for one whose type is not registered.              *)
C17_MissingSignature ==
  VerifiedMissing =>
    cx.verified = IF cx.trs.type \in types THEN "false" ELSE "throw"

C17_Witness ==
  /\ VerifiedMissing
  /\ cx.pc = "verifiedSecondary"
  /\ cx.trs.type \in types
  /\ cx.verified = "false"

(* C17, as claimed: called with a missing or empty signature they       *)
(* return false and never raise, for every transaction including one    *)
(* whose type is not registered.                                        *)
C17_MissingSignatureAsClaimed ==
  VerifiedMissing => cx.verified = "false"

(* the signed 32-bit integer whose four bytes are these, the most *)
(* significant first                                              *)
Int32(b3, b2, b1, b0) ==
  b0 + 256 * b1 + 65536 * b2 + 16777216 * (IF b3 >= 128 THEN b3 - 256 ELSE b3)

(* bytes 1..4 of the canonical bytes: the four bytes after the type byte *)
TimestampBytes == cx.bytes[2]

IsBytes(b) == Len(b) = 4 /\ \A i \in 1..4 : b[i] \in 0..255

(* C20, as amended: bytes 1..4 of the canonical bytes are the timestamp *)
(* as a 4-byte little-endian signed integer (least significant byte     *)
(* first), for every timestamp of the signed 32-bit range.              *)
C20_TimestampLittleEndian ==
  cx.pc = "bytes" =>
    /\ IsBytes(TimestampBytes)
    /\ Int32(TimestampBytes[4], TimestampBytes[3], TimestampBytes[2], TimestampBytes[1])
         = cx.trs.timestamp

C20_Witness ==
  /\ cx.pc = "bytes"
  /\ cx.trs.timestamp = 141738
  /\ TimestampBytes = <<170, 41, 2, 0>>

(* C20, as claimed: bytes 1..4 of the canonical bytes are the timestamp *)
(* as a 4-byte big-endian signed integer (most significant byte first). *)
C20_TimestampBigEndian ==
  cx.pc = "bytes" =>
    /\ IsBytes(TimestampBytes)
    /\ Int32(TimestampBytes[1], TimestampBytes[2], TimestampBytes[3], TimestampBytes[4])
         = cx.trs.timestamp

====
